---------------------------- MODULE Spec2Model ----------------------------
(***************************************************************************)
(* A model of snicholls::topological_sorter and of the container adapters  *)
(* built on it (stl_topological_sorter.hpp), driven by an arbitrary caller *)
(* and by the example functions of main.cpp.                               *)
(*                                                                         *)
(* Keys are one-letter strings, ordered as std::less<std::string> orders   *)
(* them.  A std::map is a function whose DOMAIN is its key set; a          *)
(* std::vector and a std::stack are sequences (the top of a stack is its   *)
(* last element).                                                          *)
(***************************************************************************)
EXTENDS Integers, Sequences, FiniteSets, TLC

\* Bounds of the caller "any": the calls it makes that change the object
\* (precede, push_back, operator[], and one per element an array is
\* constructed with), and its calls of sort or topological_sort in a row.
MaxOps == 4
MaxCalls == 3

\* The deepest nesting of sort_util the stepwise model follows.
MaxDepth == 4

\* The keys the arbitrary caller uses, and the mapped values of the
\* associative adapters.
Key == {"A", "B", "C"}
Value == {0}

-----------------------------------------------------------------------------
(* std::less<Key> on the keys of main.cpp *)

Alphabet == <<"A", "B", "C", "D", "E", "F", "X", "Y", "Z">>

Rank ==
    [k \in {Alphabet[i] : i \in 1..Len(Alphabet)} |->
        CHOOSE i \in 1..Len(Alphabet) : Alphabet[i] = k]

\* The order of a map declared with std::greater.
Less_greater(a, b) == Rank[a] > Rank[b]

Less(a, b) == Rank[a] < Rank[b]

\* The smallest key of a non-empty key set: begin() of a std::map.
MinKey(S) == CHOOSE k \in S : \A o \in S : ~Less(o, k)

\* The keys of a key set in increasing order: the iteration of a std::map.
RECURSIVE InOrder(_)
InOrder(S) ==
    IF S = {} THEN <<>> ELSE <<MinKey(S)>> \o InOrder(S \ {MinKey(S)})

Range(q) == {q[i] : i \in 1..Len(q)}

-----------------------------------------------------------------------------
(* std::map<Key, ...>::operator[] : the entry is created when absent *)

\* adjacency_type::operator[] : a key without entry gets an empty vector.
AdjAt(a, v) == IF v \in DOMAIN a THEN a ELSE a @@ (v :> <<>>)

\* visited_type::operator[] : a key without entry gets false.
VisitedAt(m, k) == IF k \in DOMAIN m THEN m ELSE m @@ (k :> FALSE)

\* A visited[v] that creates the entry and leaves it false.
MarkVisited_unset(m, k) == VisitedAt(m, k)

\* visited[v] = true
MarkVisited(m, k) == [x \in DOMAIN m \cup {k} |-> IF x = k THEN TRUE ELSE m[x]]

-----------------------------------------------------------------------------
(* topological_sorter *)

\* precede(v, w): adj[v].push_back(w)
precede(a, v, w) == [AdjAt(a, v) EXCEPT ![v] = Append(@, w)]

RECURSIVE sort_util(_, _)
RECURSIVE sort_util_for(_, _, _)

\* The body of the range-for of sort_util over adj[v], from its i-th element.
\* st is [adj, visited, s]: the member adj and the two reference parameters.
sort_util_for(v, i, st) ==
    IF i > Len(st.adj[v]) THEN st
    ELSE
        LET w    == st.adj[v][i]
            seen == VisitedAt(st.visited, w)
            st1  == [st EXCEPT !.visited = seen]
        IN  IF ~seen[w]
            THEN sort_util_for(v, i + 1, sort_util(w, st1))
            ELSE sort_util_for(v, i + 1, st1)

\* A sort_util that pushes v before it descends into the successors of v.
sort_util_preorder(v, st) ==
    LET st1 == [st EXCEPT !.visited = MarkVisited(@, v),
                          !.adj = AdjAt(@, v),
                          !.s = Append(@, v)]
    IN  sort_util_for(v, 1, st1)

\* A sort_util that empties the successor list it has walked.
sort_util_clear(v, st) ==
    LET st1 == [st EXCEPT !.visited = MarkVisited(@, v), !.adj = AdjAt(@, v)]
        st2 == sort_util_for(v, 1, st1)
    IN  [st2 EXCEPT !.s = Append(@, v), !.adj[v] = <<>>]

\* A sort_util that erases the entry it created for a key without
\* successors.
sort_util_erase(v, st) ==
    LET st1 == [st EXCEPT !.visited = MarkVisited(@, v), !.adj = AdjAt(@, v)]
        st2 == sort_util_for(v, 1, st1)
        kept == IF st2.adj[v] = <<>> THEN DOMAIN st2.adj \ {v}
                ELSE DOMAIN st2.adj
    IN  [st2 EXCEPT !.s = Append(@, v), !.adj = [k \in kept |-> st2.adj[k]]]

sort_util(v, st) ==
    LET st1 == [st EXCEPT !.visited = MarkVisited(@, v), !.adj = AdjAt(@, v)]
        st2 == sort_util_for(v, 1, st1)
    IN  [st2 EXCEPT !.s = Append(@, v)]

RECURSIVE topological_sort_for(_, _)

\* A range-for of topological_sort that calls sort_util for every key of
\* adj, visited or not.
topological_sort_for_unchecked(key, st) ==
    LET st1   == [st EXCEPT !.visited = VisitedAt(@, key)]
        st2   == sort_util(key, st1)
        after == {k \in DOMAIN st2.adj : Less(key, k)}
    IN  IF after = {} THEN st2 ELSE topological_sort_for(MinKey(after), st2)

\* The range-for of topological_sort over adj, positioned on key: adj grows
\* while it is iterated, and ++it moves to the next greater key of the map
\* as it is then.
topological_sort_for(key, st) ==
    LET seen  == VisitedAt(st.visited, key)
        st1   == [st EXCEPT !.visited = seen]
        st2   == IF seen[key] = FALSE THEN sort_util(key, st1) ELSE st1
        after == {k \in DOMAIN st2.adj : Less(key, k)}
    IN  IF after = {} THEN st2 ELSE topological_sort_for(MinKey(after), st2)

\* A topological_sort that works on a copy of adj.
topological_sort_const(a) ==
    LET st0 == [adj |-> a, visited |-> <<>>, s |-> <<>>]
    IN  IF DOMAIN a = {} THEN st0
        ELSE [topological_sort_for(MinKey(DOMAIN a), st0) EXCEPT !.adj = a]

\* topological_sort(): the adjacency map it leaves and the stack it returns.
topological_sort(a) ==
    LET st0 == [adj |-> a, visited |-> <<>>, s |-> <<>>]
    IN  IF DOMAIN a = {} THEN st0 ELSE topological_sort_for(MinKey(DOMAIN a), st0)

\* The keys of a stack in the order stack_helper pops them: top first.
PopOrder(s) == [i \in 1..Len(s) |-> s[Len(s) + 1 - i]]

-----------------------------------------------------------------------------
(* The containers.  A std::vector or std::array is the sequence of its      *)
(* elements; a std::map or std::unordered_map is the sequence of its        *)
(* <<key, mapped value>> pairs in the order its iteration yields them.      *)

Associative == {"map", "unordered_map"}
Sequential == {"vector", "array"}

\* The key of a container element.
KeyOf(kind, e) == IF kind \in Associative THEN e[1] ELSE e

\* The keys of the container, in its iteration order.
Keys(kind, c) == [i \in 1..Len(c) |-> KeyOf(kind, c[i])]

\* std::count( this->begin(), this->end(), key )
Count(c, key) == Cardinality({i \in 1..Len(c) : c[i] = key})

\* n copies of key
Copies(key, n) == [i \in 1..n |-> key]

\* container::at( key ): the mapped value; the caller checks that key is there,
\* at() throws std::out_of_range when it is not.
At(c, key) == c[CHOOSE i \in 1..Len(c) : c[i][1] = key][2]

\* All the orders a finite set can be iterated in.
Orders(S) == {q \in [1..Cardinality(S) -> S] : Range(q) = S}

\* g[k] = x on a std::map: the pairs stay in key order.
MapAssign(c, k, x) ==
    LET rest == {c[i] : i \in {j \in 1..Len(c) : c[j][1] # k}}
        ks   == InOrder({e[1] : e \in rest} \cup {k})
    IN  [i \in 1..Len(ks) |->
            IF ks[i] = k THEN <<k, x>> ELSE <<ks[i], At(c, ks[i])>>]

\* g[k] = x on a std::unordered_map: a present key keeps its place, a new one
\* may rehash the table, after which the iteration order is any order.
UnorderedAssign(c, k, x) ==
    IF k \in Range(Keys("unordered_map", c))
    THEN {[i \in 1..Len(c) |-> IF c[i][1] = k THEN <<k, x>> ELSE c[i]]}
    ELSE Orders(Range(c) \cup {<<k, x>>})

-----------------------------------------------------------------------------
(* sort() of the four adapters.  acc is the state the lambda and the second *)
(* loop share: result, copied, and for the array the write position index;  *)
(* threw records an exception that left sort().                             *)

\* The lambda of topological_sort_map::sort and of
\* topological_sort_unordered_map::sort, applied to the popped key.
map_copy(c, key, acc) ==
    IF key \in Range(Keys("map", c))
    THEN [acc EXCEPT !.result = Append(@, <<key, At(c, key)>>),
                     !.copied = MarkVisited(@, key)]
    ELSE [acc EXCEPT !.threw = TRUE]

\* A lambda that inserts the popped key once, however often it occurs.
vector_copy_once(c, key, acc) ==
    [acc EXCEPT !.result = IF Count(c, key) > 0 THEN Append(@, key) ELSE @,
                !.copied = MarkVisited(@, key)]

\* The lambda of topological_sort_vector::sort.
vector_copy(c, key, acc) ==
    [acc EXCEPT !.result = @ \o Copies(key, Count(c, key)),
                !.copied = MarkVisited(@, key)]

\* result[index++] = key, n times.
ArrayWrite(acc, key, n) ==
    [acc EXCEPT !.result = [i \in 1..Len(@) |->
                               IF i \in (acc.index + 1)..(acc.index + n)
                               THEN key ELSE @[i]],
                !.index = @ + n]

\* The lambda of topological_sort_array::sort.
array_copy(c, key, acc) ==
    [ArrayWrite(acc, key, Count(c, key)) EXCEPT !.copied = MarkVisited(@, key)]

\* The lambda of the adapter of this kind.
CopyKey(kind, c, key, acc) ==
    CASE kind \in Associative -> map_copy(c, key, acc)
      [] kind = "vector"      -> vector_copy(c, key, acc)
      [] kind = "array"       -> array_copy(c, key, acc)

\* stack_helper( s, f ): f on the top of the stack, pop, until it is empty;
\* an exception of f leaves the loop.
RECURSIVE stack_helper(_, _, _, _)
stack_helper(kind, c, s, acc) ==
    IF s = <<>> \/ acc.threw THEN acc
    ELSE stack_helper(kind, c, SubSeq(s, 1, Len(s) - 1),
                      CopyKey(kind, c, s[Len(s)], acc))

\* The body of the second loop of the associative adapters, on element e.
map_rest(e, acc) ==
    LET seen == VisitedAt(acc.copied, e[1])
    IN  IF seen[e[1]] = FALSE
        THEN [acc EXCEPT !.copied = MarkVisited(seen, e[1]),
                         !.result = Append(@, e)]
        ELSE [acc EXCEPT !.copied = seen]

\* A second loop that copies each remaining element where it stands.
vector_rest_each(c, key, acc) ==
    LET seen == VisitedAt(acc.copied, key)
    IN  IF seen[key] = FALSE
        THEN [acc EXCEPT !.copied = seen, !.result = Append(@, key)]
        ELSE [acc EXCEPT !.copied = seen]

\* The body of the second loop of topological_sort_vector::sort, on key.
vector_rest(c, key, acc) ==
    LET seen == VisitedAt(acc.copied, key)
    IN  IF seen[key] = FALSE
        THEN [acc EXCEPT !.copied = MarkVisited(seen, key),
                         !.result = @ \o Copies(key, Count(c, key))]
        ELSE [acc EXCEPT !.copied = seen]

\* The body of the second loop of topological_sort_array::sort, on key.
array_rest(c, key, acc) ==
    LET seen == VisitedAt(acc.copied, key)
    IN  IF seen[key] = FALSE
        THEN ArrayWrite([acc EXCEPT !.copied = MarkVisited(seen, key)],
                        key, Count(c, key))
        ELSE [acc EXCEPT !.copied = seen]

\* The second loop of sort(): the container in its iteration order, from
\* its i-th element.
RECURSIVE Rest(_, _, _, _)
Rest(kind, c, i, acc) ==
    IF i > Len(c) THEN acc
    ELSE Rest(kind, c, i + 1,
              CASE kind \in Associative -> map_rest(c[i], acc)
                [] kind = "vector"      -> vector_rest(c, c[i], acc)
                [] kind = "array"       -> array_rest(c, c[i], acc))

\* sort(): the adjacency map it leaves, the stack topological_sort returned,
\* whether an exception left it, and the sequence it returns otherwise.
sort(kind, a, c) ==
    LET ts   == topological_sort(a)
        acc0 == [result |-> IF kind = "array" THEN Copies("", Len(c)) ELSE <<>>,
                 copied |-> <<>>, index |-> 0, threw |-> FALSE]
        acc1 == stack_helper(kind, c, ts.s, acc0)
    IN  IF acc1.threw
        THEN [adj |-> ts.adj, s |-> ts.s, threw |-> TRUE, value |-> <<>>]
        ELSE [adj |-> ts.adj, s |-> ts.s, threw |-> FALSE,
              value |-> Rest(kind, c, 1, acc1).result]

-----------------------------------------------------------------------------
(* The callers: the example functions of main.cpp, statement by statement,  *)
(* and "any", a caller that makes any call with any argument.               *)

SixEdges ==
    << <<"precede", "F", "C">>, <<"precede", "F", "A">>,
       <<"precede", "E", "A">>, <<"precede", "E", "B">>,
       <<"precede", "C", "D">>, <<"precede", "D", "B">> >>

BasicStackExample == SixEdges \o << <<"topological_sort">> >>

STLMapExample ==
    SixEdges \o
    << <<"assign", "A", 0>>, <<"assign", "B", 1>>, <<"assign", "C", 2>>,
       <<"assign", "D", 3>>, <<"assign", "E", 4>>, <<"assign", "F", 5>>,
       <<"assign", "X", 100>>, <<"assign", "Y", 101>>, <<"assign", "Z", 102>>,
       <<"sort">> >>

STLVectorExample ==
    SixEdges \o
    << <<"push_back", "A">>, <<"push_back", "A">>, <<"push_back", "A">>,
       <<"push_back", "B">>, <<"push_back", "B">>,
       <<"push_back", "C">>, <<"push_back", "C">>,
       <<"push_back", "D">>, <<"push_back", "D">>,
       <<"push_back", "E">>, <<"push_back", "E">>,
       <<"push_back", "F">>, <<"push_back", "F">>, <<"push_back", "F">>,
       <<"precede", "Z", "F">>,
       <<"sort">>,
       <<"push_back", "Z">>,
       <<"sort">> >>

STLArrayExample == SixEdges \o << <<"sort">> >>

\* The elements STLArrayExample constructs its array with.
STLArrayElements == <<"A", "B", "C", "D", "E", "F", "X", "Y", "Z">>

Examples ==
    {"BasicStackExample", "STLMapExample", "STLVectorExample", "STLArrayExample"}

Script(d) ==
    CASE d = "BasicStackExample" -> BasicStackExample
      [] d = "STLMapExample"     -> STLMapExample
      [] d = "STLVectorExample"  -> STLVectorExample
      [] d = "STLArrayExample"   -> STLArrayExample
      [] OTHER                   -> <<>>

\* The class of the object an example constructs.
KindOf(d) ==
    CASE d = "BasicStackExample" -> "sorter"
      [] d = "STLMapExample"     -> "map"
      [] d = "STLVectorExample"  -> "vector"
      [] d = "STLArrayExample"   -> "array"

Kinds == {"sorter", "map", "unordered_map", "vector", "array"}

-----------------------------------------------------------------------------
VARIABLES
    driver,     \* the caller: an example of main.cpp, or "any"
    pc,         \* the statement of the example that comes next
    kind,       \* the class of the object g
    adj,        \* g.adj, the adjacency map
    cont,       \* the container g derives from, in its iteration order
    ops,        \* number of calls so far that changed g
    calls,      \* calls of sort / topological_sort since g last changed
    stack,      \* the stack the last topological_sort returned
    prevStack,  \* the stack the one before it returned
    result,     \* what the last sort() returned, or that it threw
    prevResult, \* the same of the sort() before it
    \* topological_sort() followed step by step:
    run,        \* "idle", "running" or "returned"
    adj0,       \* adj when topological_sort was entered
    it,         \* the key the range-for of topological_sort is on, or End
    frames,     \* the activations of sort_util, innermost last: the key v
                \* and the index i of the successor its range-for is on
    visited,    \* the local visited
    s,          \* the local s
    entered     \* how often sort_util was entered with each key

steps == <<run, adj0, it, frames, visited, s, entered>>

vars ==
    <<driver, pc, kind, adj, cont, ops, calls, stack, prevStack, result,
      prevResult, steps>>

\* adj.end()
End == "end()"

NoResult == [threw |-> FALSE, value |-> <<>>]

\* The arrays the caller "any" constructs.
Arrays == UNION {[1..n -> Key] : n \in 1..MaxOps}

Init ==
    /\ driver \in Examples \cup {"any"}
    /\ pc = 1
    /\ kind \in IF driver = "any" THEN Kinds ELSE {KindOf(driver)}
    /\ adj = <<>>
    /\ cont \in CASE kind # "array"   -> {<<>>}
                  [] driver = "any"   -> Arrays
                  [] OTHER            -> {STLArrayElements}
    /\ ops = Len(cont)
    /\ calls = 0
    /\ stack = <<>>
    /\ prevStack = <<>>
    /\ result = NoResult
    /\ prevResult = NoResult
    /\ run = "idle"
    /\ adj0 = <<>>
    /\ it = End
    /\ frames = <<>>
    /\ visited = <<>>
    /\ s = <<>>
    /\ entered = [k \in Key |-> 0]

\* The arguments a caller passes.
Arg == IF driver = "any" THEN Key ELSE Range(Alphabet)
Mapped == IF driver = "any" THEN Value ELSE {0, 1, 2, 3, 4, 5, 100, 101, 102}

\* The caller makes this call next.
Calls(stmt) ==
    IF driver = "any" THEN TRUE
    ELSE pc <= Len(Script(driver)) /\ Script(driver)[pc] = stmt

Advance == pc' = IF driver = "any" THEN pc ELSE pc + 1

\* g changed: what earlier calls returned is no longer compared.
Forget ==
    /\ calls' = 0
    /\ stack' = <<>>
    /\ prevStack' = <<>>
    /\ result' = NoResult
    /\ prevResult' = NoResult

\* g.precede(v, w), but for the variables of the stepwise topological_sort
PrecedeCall ==
    /\ driver = "any" => ops < MaxOps
    /\ \E v \in Arg, w \in Arg :
        /\ Calls(<<"precede", v, w>>)
        /\ adj' = precede(adj, v, w)
    /\ ops' = ops + 1
    /\ Forget
    /\ Advance
    /\ UNCHANGED <<driver, kind, cont>>

\* g.precede(v, w)
Precede == PrecedeCall /\ UNCHANGED steps

\* g.push_back(k)
PushBack ==
    /\ kind = "vector"
    /\ driver = "any" => ops < MaxOps
    /\ \E k \in Arg :
        /\ Calls(<<"push_back", k>>)
        /\ cont' = Append(cont, k)
    /\ ops' = ops + 1
    /\ Forget
    /\ Advance
    /\ UNCHANGED <<driver, kind, adj, steps>>

\* g[k] = x
Assign ==
    /\ kind \in Associative
    /\ driver = "any" => ops < MaxOps
    /\ \E k \in Arg, x \in Mapped :
        /\ Calls(<<"assign", k, x>>)
        /\ IF kind = "map"
           THEN cont' = MapAssign(cont, k, x)
           ELSE cont' \in UnorderedAssign(cont, k, x)
    /\ ops' = ops + 1
    /\ Forget
    /\ Advance
    /\ UNCHANGED <<driver, kind, adj, steps>>

\* s = g.topological_sort()
TopologicalSort ==
    /\ kind = "sorter"
    /\ driver = "any" => calls < MaxCalls
    /\ Calls(<<"topological_sort">>)
    /\ calls' = calls + 1
    /\ prevStack' = stack
    /\ LET r == topological_sort(adj)
       IN  /\ adj' = r.adj
           /\ stack' = r.s
    /\ Advance
    /\ UNCHANGED <<driver, kind, cont, ops, result, prevResult, steps>>

\* v = g.sort()
Sort ==
    /\ kind # "sorter"
    /\ driver = "any" => calls < MaxCalls
    /\ Calls(<<"sort">>)
    /\ calls' = calls + 1
    /\ prevStack' = stack
    /\ prevResult' = result
    /\ LET r == sort(kind, adj, cont)
       IN  /\ adj' = r.adj
           /\ stack' = r.s
           /\ result' = [threw |-> r.threw, value |-> r.value]
    /\ Advance
    /\ UNCHANGED <<driver, kind, cont, ops, steps>>

Next == Precede \/ PushBack \/ Assign \/ TopologicalSort \/ Sort

Spec == Init /\ [][Next]_vars

-----------------------------------------------------------------------------
(* topological_sort() on the bare sorter, one step at a time: each test of  *)
(* a range-for, each entry of sort_util and each return of it is a step.    *)

main == <<driver, pc, kind, cont, calls, prevStack, result, prevResult>>

InitSteps ==
    /\ Init
    /\ driver = "any"
    /\ kind = "sorter"

\* g.precede(v, w), between two calls of topological_sort
Declare ==
    /\ run # "running"
    /\ PrecedeCall
    /\ run' = "idle"
    /\ UNCHANGED <<adj0, it, frames, visited, s, entered>>

\* topological_sort() is entered: lines 94-97
Enter ==
    /\ run # "running"
    /\ run' = "running"
    /\ adj0' = adj
    /\ visited' = <<>>
    /\ s' = <<>>
    /\ frames' = <<>>
    /\ it' = IF DOMAIN adj = {} THEN End ELSE MinKey(DOMAIN adj)
    /\ entered' = [k \in Key |-> 0]
    /\ UNCHANGED <<main, adj, ops, stack>>

\* ++it of the range-for of topological_sort
NextKey(a, key) ==
    LET after == {k \in DOMAIN a : Less(key, k)}
    IN  IF after = {} THEN End ELSE MinKey(after)

\* sort_util( v, visited, s ) is entered, with seen the visited map and fr
\* the activations at the call: visited[v] = true, and adj[v] of line 83.
Call(v, seen, fr) ==
    /\ Len(fr) < MaxDepth
    /\ visited' = MarkVisited(seen, v)
    /\ adj' = AdjAt(adj, v)
    /\ frames' = Append(fr, [v |-> v, i |-> 1])
    /\ entered' = [entered EXCEPT ![v] = @ + 1]

\* One round of the range-for of topological_sort: lines 97-99
Loop ==
    /\ run = "running"
    /\ frames = <<>>
    /\ it # End
    /\ LET seen == VisitedAt(visited, it)
       IN  IF seen[it] = FALSE
           THEN Call(it, seen, frames) /\ UNCHANGED it
           ELSE /\ visited' = seen
                /\ it' = NextKey(adj, it)
                /\ UNCHANGED <<adj, frames, entered>>
    /\ UNCHANGED <<main, ops, stack, run, adj0, s>>

\* One round of the range-for of the innermost sort_util: lines 83-85
Successor ==
    /\ run = "running"
    /\ frames # <<>>
    /\ LET top  == frames[Len(frames)]
           fr   == [frames EXCEPT ![Len(frames)].i = @ + 1]
       IN  /\ top.i <= Len(adj[top.v])
           /\ LET w    == adj[top.v][top.i]
                  seen == VisitedAt(visited, w)
              IN  IF ~seen[w]
                  THEN Call(w, seen, fr)
                  ELSE /\ visited' = seen
                       /\ frames' = fr
                       /\ UNCHANGED <<adj, entered>>
    /\ UNCHANGED <<main, ops, stack, run, adj0, it, s>>

\* The innermost sort_util has walked its successors: s.push(v) and return,
\* to the sort_util that called it or to the range-for of topological_sort.
Return ==
    /\ run = "running"
    /\ frames # <<>>
    /\ LET top == frames[Len(frames)]
       IN  /\ top.i > Len(adj[top.v])
           /\ s' = Append(s, top.v)
           /\ frames' = SubSeq(frames, 1, Len(frames) - 1)
           /\ it' = IF Len(frames) = 1 THEN NextKey(adj, it) ELSE it
    /\ UNCHANGED <<main, adj, ops, stack, run, adj0, visited, entered>>

\* return s
Leave ==
    /\ run = "running"
    /\ frames = <<>>
    /\ it = End
    /\ run' = "returned"
    /\ stack' = s
    /\ UNCHANGED <<main, adj, ops, adj0, it, frames, visited, s, entered>>

Running == Loop \/ Successor \/ Return \/ Leave

NextSteps == Declare \/ Enter \/ Loop \/ Successor \/ Return \/ Leave

\* A call that was entered goes on until it returns: nothing suspends it.
SpecSteps == InitSteps /\ [][NextSteps]_vars /\ WF_vars(Running)

\* The steps leave what topological_sort, taken as a whole, leaves.
StepsAgree ==
    run = "returned" =>
        /\ stack = topological_sort(adj0).s
        /\ adj = topological_sort(adj0).adj

-----------------------------------------------------------------------------
(* The vocabulary of the properties *)

\* The declared edges: <<v, w>> for every w in the successor list of v.
Edges(a) == UNION {{<<v, a[v][i]>> : i \in 1..Len(a[v])} : v \in DOMAIN a}

\* The vertices: the keys on either side of a declared edge.
Vertices(a) == {e[1] : e \in Edges(a)} \cup {e[2] : e \in Edges(a)}

\* No cycle among the edges E on the vertices V: the vertices without a
\* successor in V can be removed, again and again, until none is left.
RECURSIVE NoCycle(_, _)
NoCycle(E, V) ==
    LET sinks == {v \in V : \A e \in E : e[1] = v => e[2] \notin V}
    IN  IF V = {} THEN TRUE
        ELSE IF sinks = {} THEN FALSE
        ELSE NoCycle(E, V \ sinks)

Acyclic(a) == NoCycle(Edges(a), Vertices(a))

\* The places of key in the sequence q.
Places(q, key) == {i \in 1..Len(q) : q[i] = key}

\* The elements of q whose index satisfies keep, in the order of q.
RECURSIVE Select(_, _, _)
Select(q, keep, i) ==
    IF i > Len(q) THEN <<>>
    ELSE (IF i \in keep THEN <<q[i]>> ELSE <<>>) \o Select(q, keep, i + 1)

\* A call of sort / topological_sort has returned since g last changed.
Sorted == calls > 0
Returned == Sorted /\ kind # "sorter" /\ ~result.threw

\* The keys popped from the last stack, top first.
Popped == PopOrder(stack)

\* The keys of the elements of the last result.
ResultKeys == Keys(kind, result.value)
ContKeys == Keys(kind, cont)

-----------------------------------------------------------------------------
\* C1: after any call of topological_sort on an acyclic graph, for every
\* declared edge (v, w) both keys are in the returned stack and every pop of
\* v comes at or before every pop of w.
C1_TopologicalValidity ==
    (Sorted /\ Acyclic(adj)) =>
        \A e \in Edges(adj) :
            /\ Places(Popped, e[1]) # {}
            /\ Places(Popped, e[2]) # {}
            /\ \A i \in Places(Popped, e[1]), j \in Places(Popped, e[2]) : i <= j

\* A repeated call on an acyclic graph with a duplicate edge and a second edge.
C1_Witness ==
    /\ calls >= 2
    /\ Acyclic(adj)
    /\ Cardinality(Edges(adj)) >= 2
    /\ \E v \in DOMAIN adj : Len(adj[v]) > Cardinality(Range(adj[v]))

\* C2: sort() of every adapter returns, and returns as many elements as the
\* container holds, whatever the declared edges.
C2_CardinalityPreserved ==
    (Sorted /\ kind # "sorter") =>
        (~result.threw /\ Len(result.value) = Len(cont))

\* C3: a second call of sort() (of topological_sort() on the bare sorter),
\* with no precede and no change of the container since the first, returns
\* what the first call returned.
C3_Idempotent ==
    calls >= 2 =>
        IF kind = "sorter" THEN stack = prevStack ELSE result = prevResult

\* C4 as stated: sort() and topological_sort() leave the adjacency map and
\* the container as they were, and only precede changes the adjacency map.
C4_GraphUntouched ==
    [][/\ (Sort \/ TopologicalSort) => (adj' = adj /\ cont' = cont)
       /\ adj' # adj => PrecedeCall]_vars

\* C4, amended: sort() and topological_sort() leave the container and every
\* successor list as they were; the only change to the adjacency map is that
\* its key set becomes the vertex set, each added key with an empty
\* successor list.  Only precede changes the declared edges.
C4_EdgesUntouched ==
    [][/\ (Sort \/ TopologicalSort) =>
            /\ cont' = cont
            /\ DOMAIN adj \subseteq DOMAIN adj'
            /\ DOMAIN adj' = Vertices(adj)
            /\ \A k \in DOMAIN adj : adj'[k] = adj[k]
            /\ \A k \in DOMAIN adj' \ DOMAIN adj : adj'[k] = <<>>
       /\ Edges(adj') # Edges(adj) => PrecedeCall]_vars

\* A sort of a non-empty container has added a key to the adjacency map.
C4_Witness ==
    /\ Sorted
    /\ kind # "sorter"
    /\ cont # <<>>
    /\ \E k \in DOMAIN adj : adj[k] = <<>>

\* C5: sort() of every adapter returns normally, and its result holds no
\* element for a vertex that is not in the container.
C5_AbsentKeyDropped ==
    (Sorted /\ kind # "sorter") =>
        /\ ~result.threw
        /\ \A k \in Vertices(adj) \ Range(ContKeys) : k \notin Range(ResultKeys)

\* The elements of the result, and of the container, whose key is no vertex.
Unconstrained(q) ==
    LET V == Vertices(adj)
    IN  Select(q, {i \in 1..Len(q) : KeyOf(kind, q[i]) \notin V}, 1)

\* The elements of q, each followed at once by the later elements of q that
\* have its key.
Grouped(q) ==
    LET first == {i \in 1..Len(q) : \A j \in 1..(i - 1) : q[j] # q[i]}
        F     == Select(q, first, 1)
        RECURSIVE Blocks(_)
        Blocks(i) ==
            IF i > Len(F) THEN <<>>
            ELSE Copies(F[i], Cardinality(Places(q, F[i]))) \o Blocks(i + 1)
    IN  Blocks(1)

\* In the result every element of a vertex key comes before every element of
\* a key that is no vertex.
VerticesFirst ==
    LET V == Vertices(adj)
        K == ResultKeys
    IN  \A i, j \in 1..Len(K) : (K[i] \notin V /\ K[j] \in V) => j < i

\* C6 as stated: the unconstrained elements come after the elements of the
\* vertices, in the order the container iterates them.
C6_UnconstrainedInContainerOrder ==
    Returned =>
        /\ VerticesFirst
        /\ Unconstrained(result.value) = Unconstrained(cont)

\* C6, amended: the unconstrained elements come after the elements of the
\* vertices; their keys come in the order of their first occurrence in the
\* container, and all the occurrences of one key come together, at the place
\* of its first occurrence.
C6_UnconstrainedGrouped ==
    Returned =>
        /\ VerticesFirst
        /\ Unconstrained(result.value) = Grouped(Unconstrained(cont))

\* A vector or array holding a vertex and, around another key, two
\* occurrences of an unconstrained key has been sorted.
C6_Witness ==
    /\ Returned
    /\ kind \in Sequential
    /\ Range(cont) \cap Vertices(adj) # {}
    /\ \E i, j, k \in 1..Len(cont) :
        /\ i < j /\ j < k
        /\ cont[i] = cont[k] /\ cont[j] # cont[i]
        /\ cont[i] \notin Vertices(adj)

\* C7: in the result of the vector and array adapters every vertex that
\* occurs n >= 1 times in the container occupies exactly n places, which are
\* contiguous, and the blocks of two such vertices are in the order in which
\* the two are popped from the stack.
C7_DuplicateGrouping ==
    (Returned /\ kind \in Sequential) =>
        LET V == Vertices(adj) \cap Range(cont)
        IN  /\ \A k \in V :
                LET P == Places(result.value, k)
                IN  /\ Cardinality(P) = Cardinality(Places(cont, k))
                    /\ \A i \in P, j \in P :
                        \A m \in i..j : result.value[m] = k
            /\ \A k1 \in V, k2 \in V :
                (\E i \in Places(PopOrder(stack), k1),
                    j \in Places(PopOrder(stack), k2) : i < j)
                    => \A i \in Places(result.value, k1),
                          j \in Places(result.value, k2) : i < j

\* Two vertices in the container, one of them twice and not adjacently.
C7_Witness ==
    /\ Returned
    /\ kind \in Sequential
    /\ \E i, j, k \in 1..Len(cont) :
        /\ i < j /\ j < k
        /\ cont[i] = cont[k] /\ cont[j] # cont[i]
        /\ {cont[i], cont[j]} \subseteq Vertices(adj)

\* C8: a call of topological_sort returns, whatever edges were declared
\* (self-edges, cycles, duplicates); during it sort_util is entered at most
\* once with each key, a key being marked visited before its successors are
\* examined, and so never nests deeper than there are keys.
C8_Terminates ==
    /\ [](\A k \in Key : entered[k] <= 1)
    /\ [](Len(frames) <= Cardinality(Key))
    /\ [](\A i \in 1..Len(frames) : frames[i].v \in DOMAIN visited
                                       /\ visited[frames[i].v])
    /\ [](run = "running" => <>(run = "returned"))

\* A call has returned on a graph with a self-edge, a longer cycle and a
\* duplicate edge.
C8_Witness ==
    /\ run = "returned"
    /\ \E v \in Key : <<v, v>> \in Edges(adj)
    /\ \E v \in Key, w \in Key :
        v # w /\ <<v, w>> \in Edges(adj) /\ <<w, v>> \in Edges(adj)
    /\ \E v \in DOMAIN adj : Len(adj[v]) > Cardinality(Range(adj[v]))
    /\ Len(stack) = Cardinality(Vertices(adj))

\* C9: when BasicStackExample has run, the stack its call of
\* topological_sort returned pops F, E, A, C, D, B.
C9_ScenarioA ==
    (driver = "BasicStackExample" /\ pc > Len(BasicStackExample)) =>
        Popped = <<"F", "E", "A", "C", "D", "B">>

C9_Witness ==
    /\ driver = "BasicStackExample"
    /\ pc > Len(BasicStackExample)
    /\ calls = 1
    /\ Len(stack) = 6

\* C10: when STLVectorExample has run (sort, push_back("Z"), sort), the second
\* sort has returned Z,F,F,F,E,E,C,C,D,D,B,B,A,A,A.
C10_ScenarioD ==
    (driver = "STLVectorExample" /\ pc > Len(STLVectorExample)) =>
        /\ ~result.threw
        /\ result.value = <<"Z", "F", "F", "F", "E", "E", "C", "C",
                            "D", "D", "B", "B", "A", "A", "A">>

C10_Witness ==
    /\ driver = "STLVectorExample"
    /\ pc > Len(STLVectorExample)
    /\ Len(cont) = 15
    /\ Len(result.value) = 15

\* C11: the stack a call of topological_sort returns holds every vertex of
\* the graph exactly once and no other key, whatever edges were declared.
C11_EveryVertexOnce ==
    Sorted =>
        LET V == Vertices(adj)
        IN  /\ Range(stack) = V
            /\ Len(stack) = Cardinality(V)
            /\ \A k \in V : Cardinality(Places(stack, k)) = 1

\* A returned stack for a graph of two or more vertices with a self-edge, a
\* longer cycle and a duplicate edge.
C11_Witness ==
    /\ Sorted
    /\ \E v \in Key : <<v, v>> \in Edges(adj)
    /\ \E v \in Key, w \in Key :
        v # w /\ <<v, w>> \in Edges(adj) /\ <<w, v>> \in Edges(adj)
    /\ \E v \in DOMAIN adj : Len(adj[v]) > Cardinality(Range(adj[v]))
    /\ Cardinality(Vertices(adj)) >= 2

\* C12: once a call of topological_sort has returned since the last precede,
\* the key set of the adjacency map is the vertex set; a call made when it is
\* leaves the adjacency map as it was; and from the second call on, every
\* call returns the stack the call before it returned.
C12_StableFromSecondCall ==
    /\ [](calls >= 1 => DOMAIN adj = Vertices(adj))
    /\ [](calls >= 3 => stack = prevStack)
    /\ [][(calls' = calls + 1 /\ DOMAIN adj = Vertices(adj)) =>
            /\ adj' = adj
            /\ calls >= 2 => stack' = stack]_vars

\* A third call in a row has returned, on a graph of three vertices of which
\* one got its entry in the adjacency map from the first call.
C12_Witness ==
    /\ calls >= 3
    /\ Cardinality(Vertices(adj)) = 3
    /\ \E k \in DOMAIN adj : adj[k] = <<>>
    /\ Len(stack) = 3
    /\ stack = prevStack

=============================================================================
